---- MODULE Spec2Model ----
(***************************************************************************)
(* GlobalAppSettings (src/cascadia/TerminalApp/GlobalAppSettings.cpp):     *)
(* the terminal-wide settings object, its JSON export (ToJson), its JSON   *)
(* layering import (LayerJson / FromJson), the projection onto a           *)
(* TerminalSettings (ApplyToSettings) and the colour-scheme map.           *)
(***************************************************************************)
EXTENDS Integers, Sequences, FiniteSets, TLC

VARIABLES
    this,       \* the GlobalAppSettings instance: a record of its fields
    call,       \* the last member function called: [op, ok]; ok = FALSE when it threw
    doc,        \* the Json::Value passed to the last LayerJson / FromJson
    result,     \* what the last FromJson returned: [ok, obj]
    settings,   \* the TerminalSettings that ApplyToSettings writes to
    given,      \* history: per key, the value of the last LayerJson that returned and held it
    layered,    \* history: as given, for the values that were not null
    clean,      \* history: TRUE while every call so far was a LayerJson that returned
    added,      \* history: the schemes passed to AddColorScheme, in call order
    calls,      \* number of member function calls made
    lab         \* theme conversion scratch: arguments and results of _SerializeTheme/_ParseTheme

vars == <<this, call, doc, result, settings, given, layered, clean, added, calls, lab>>

(***************************************************************************)
(* Bounds.                                                                 *)
(***************************************************************************)
\* Member function calls made on the instance in a run.
MaxCalls == 3
\* Calls in a run that only layers documents, drawn from all of Docs.
MaxLayers == 2

(***************************************************************************)
(* The JSON keys and theme strings.                                        *)
(***************************************************************************)
KeybindingsKey == "keybindings"
DefaultProfileKey == "defaultProfile"
AlwaysShowTabsKey == "alwaysShowTabs"
InitialRowsKey == "initialRows"
InitialColsKey == "initialCols"
ShowTitleInTitlebarKey == "showTerminalTitleInTitlebar"
RequestedThemeKey == "requestedTheme"
ShowTabsInTitlebarKey == "showTabsInTitlebar"
WordDelimitersKey == "wordDelimiters"
CopyOnSelectKey == "copyOnSelect"

LightThemeValue == "light"
DarkThemeValue == "dark"
SystemThemeValue == "system"

\* The keys LayerJson reads, and one key it does not know.
RecognizedKeys ==
    { DefaultProfileKey, AlwaysShowTabsKey, InitialRowsKey, InitialColsKey,
      ShowTitleInTitlebarKey, ShowTabsInTitlebarKey, WordDelimitersKey,
      CopyOnSelectKey, RequestedThemeKey, KeybindingsKey }
UnknownKey == "experimentalFoo"
DocKeys == RecognizedKeys \cup {UnknownKey}

(***************************************************************************)
(* ElementTheme, GUID, and the defaults of DefaultSettings.h.              *)
(***************************************************************************)
ElementTheme == {"Default", "Light", "Dark"}

\* A GUID is modelled by a small number; 0 is the zero GUID of `GUID{}`.
Guids == {0, 1, 2}

DEFAULT_ROWS == 30
DEFAULT_COLS == 120
DEFAULT_WORD_DELIMITERS == " /\\()"

(***************************************************************************)
(* Json::Value.  A value is [t, v]: its type tag and its payload.  A       *)
(* document is a function over DocKeys whose absent members hold Absent.   *)
(***************************************************************************)
Null == [t |-> "null", v |-> "null"]
Absent == [t |-> "absent", v |-> "absent"]
JBool(b) == [t |-> "bool", v |-> b]
JInt(i) == [t |-> "int", v |-> i]
JStr(s) == [t |-> "string", v |-> s]
JObj(m) == [t |-> "object", v |-> m]

\* The outcome of a conversion that may throw.
Ok(x) == [ok |-> TRUE, val |-> x]
Threw == [ok |-> FALSE, val |-> "exception"]

\* json[key] on a const Json::Value: the member, or the null value when absent.
Member(json, key) == IF json[key] = Absent THEN Null ELSE json[key]

\* The presence test written as a test of the value: false, 0 and "" fail it.
IsPresent_Truthy(value) ==
    /\ value.t # "null"
    /\ value \notin {[t |-> "bool", v |-> FALSE], [t |-> "int", v |-> 0],
                     [t |-> "string", v |-> ""]}

\* Json::Value::operator bool, which `if (auto x{ json[key] })` tests: !isNull().
IsPresent(value) == value.t # "null"

\* Json::Value::asBool: null is false, a number is true when non-zero, a
\* string or an object is not convertible.
asBool(value) ==
    CASE value.t = "bool" -> Ok(value.v)
      [] value.t = "null" -> Ok(FALSE)
      [] value.t = "int" -> Ok(value.v # 0)
      [] OTHER -> Threw

\* Json::Value::asInt: null is 0, a bool is 0 or 1, a string or an object is
\* not convertible.
asInt(value) ==
    CASE value.t = "int" -> Ok(value.v)
      [] value.t = "null" -> Ok(0)
      [] value.t = "bool" -> Ok(IF value.v THEN 1 ELSE 0)
      [] OTHER -> Threw

\* Decimal text of the integers the documents hold (Json::valueToString).
IntToString(i) ==
    CASE i = 0 -> "0"
      [] i = 1 -> "1"
      [] i = 10 -> "10"
      [] i = 20 -> "20"
      [] i = DEFAULT_ROWS -> "30"
      [] i = DEFAULT_COLS -> "120"
      [] OTHER -> "int"

\* GetWstringFromJson: to_hstring(json.asString()).  asString: null is "",
\* a bool is "true"/"false", a number its decimal text, an object is not
\* convertible.  The UTF-8/UTF-16 conversions keep the text.
GetWstringFromJson(value) ==
    CASE value.t = "string" -> Ok(value.v)
      [] value.t = "null" -> Ok("")
      [] value.t = "bool" -> Ok(IF value.v THEN "true" ELSE "false")
      [] value.t = "int" -> Ok(IntToString(value.v))
      [] OTHER -> Threw

\* Utils::GuidToString: the canonical braced text of a GUID.
GuidToString(guid) ==
    CASE guid = 0 -> "{00000000-0000-0000-0000-000000000000}"
      [] guid = 1 -> "{11111111-1111-1111-1111-111111111111}"
      [] guid = 2 -> "{22222222-2222-2222-2222-222222222222}"

\* Utils::GuidFromString: THROW_IF_FAILED(IIDFromString(...)): the GUID whose
\* canonical text this is, and an exception for any other string.
GuidFromString(wstr) ==
    IF \E g \in Guids : GuidToString(g) = wstr
    THEN Ok(CHOOSE g \in Guids : GuidToString(g) = wstr)
    ELSE Threw

(***************************************************************************)
(* AppKeyBindings: a map from key chord to action.  LayerJson lays the     *)
(* bindings of a document over the current ones; ToJson writes them out.   *)
(***************************************************************************)
Chords == {"ctrl+t", "ctrl+w"}
Actions == {"newTab", "closeTab"}
NoBindings == [c \in {} |-> "none"]
Bindings == UNION { [D -> Actions] : D \in SUBSET Chords }

KeybindingsToJson(keybindings) == JObj(keybindings)

KeybindingsLayerJson(keybindings, value) ==
    IF value.t # "object" THEN Threw
    ELSE Ok([c \in (DOMAIN keybindings) \cup (DOMAIN value.v) |->
                IF c \in DOMAIN value.v THEN value.v[c] ELSE keybindings[c]])

(***************************************************************************)
(* Theme conversions.                                                      *)
(***************************************************************************)
\* _ParseTheme falling through to Dark.
ParseTheme_DarkFallback(themeString) ==
    IF themeString = LightThemeValue THEN "Light"
    ELSE IF themeString = SystemThemeValue THEN "Default"
    ELSE "Dark"

ParseTheme(themeString) ==
    IF themeString = LightThemeValue THEN "Light"
    ELSE IF themeString = DarkThemeValue THEN "Dark"
    ELSE "Default"

\* _SerializeTheme with the text of Light returned for Dark.
SerializeTheme_DarkAsLight(theme) ==
    CASE theme = "Light" -> LightThemeValue
      [] theme = "Dark" -> LightThemeValue
      [] OTHER -> SystemThemeValue

SerializeTheme(theme) ==
    CASE theme = "Light" -> LightThemeValue
      [] theme = "Dark" -> DarkThemeValue
      [] OTHER -> SystemThemeValue

(***************************************************************************)
(* The constructor.                                                        *)
(***************************************************************************)
GlobalAppSettings ==
    [ keybindings |-> NoBindings,
      colorSchemes |-> [n \in {} |-> "none"],
      defaultProfile |-> 0,
      alwaysShowTabs |-> TRUE,
      initialRows |-> DEFAULT_ROWS,
      initialCols |-> DEFAULT_COLS,
      showTitleInTitlebar |-> TRUE,
      showTabsInTitlebar |-> TRUE,
      requestedTheme |-> "Default",
      wordDelimiters |-> DEFAULT_WORD_DELIMITERS,
      copyOnSelect |-> FALSE ]

\* The field each recognized key is read into.
FieldOf(key) ==
    CASE key = DefaultProfileKey -> "defaultProfile"
      [] key = AlwaysShowTabsKey -> "alwaysShowTabs"
      [] key = InitialRowsKey -> "initialRows"
      [] key = InitialColsKey -> "initialCols"
      [] key = ShowTitleInTitlebarKey -> "showTitleInTitlebar"
      [] key = ShowTabsInTitlebarKey -> "showTabsInTitlebar"
      [] key = WordDelimitersKey -> "wordDelimiters"
      [] key = CopyOnSelectKey -> "copyOnSelect"
      [] key = RequestedThemeKey -> "requestedTheme"
      [] key = KeybindingsKey -> "keybindings"

(***************************************************************************)
(* LayerJson, one definition per `if` of the function, in its order.  A    *)
(* layering state s is [obj, threw]: the object so far and whether an      *)
(* exception has left the function.                                        *)
(***************************************************************************)
\* `if (auto x{ json[key] }) { field = parsed; }`, where parsing may throw.
Assign(s, field, value, parsed) ==
    IF s.threw \/ ~IsPresent(value) THEN s
    ELSE IF parsed.ok THEN [s EXCEPT !.obj[field] = parsed.val]
    ELSE [s EXCEPT !.threw = TRUE]

\* The defaultProfile block with the exception of GuidFromString swallowed.
LayerDefaultProfile_Swallow(s, json) ==
    LET defaultProfile == Member(json, DefaultProfileKey)
        wstr == GetWstringFromJson(defaultProfile)
        guid == IF wstr.ok THEN GuidFromString(wstr.val) ELSE Threw
    IN IF guid.ok THEN Assign(s, "defaultProfile", defaultProfile, guid) ELSE s

LayerDefaultProfile(s, json) ==
    LET defaultProfile == Member(json, DefaultProfileKey)
        wstr == GetWstringFromJson(defaultProfile)
    IN Assign(s, "defaultProfile", defaultProfile,
              IF wstr.ok THEN GuidFromString(wstr.val) ELSE Threw)

LayerAlwaysShowTabs(s, json) ==
    LET alwaysShowTabs == Member(json, AlwaysShowTabsKey)
    IN Assign(s, "alwaysShowTabs", alwaysShowTabs, asBool(alwaysShowTabs))

LayerInitialRows(s, json) ==
    LET initialRows == Member(json, InitialRowsKey)
    IN Assign(s, "initialRows", initialRows, asInt(initialRows))

\* The initialCols block reading the initialRows key.
LayerInitialCols_RowsKey(s, json) ==
    LET initialCols == Member(json, InitialRowsKey)
    IN Assign(s, "initialCols", initialCols, asInt(initialCols))

LayerInitialCols(s, json) ==
    LET initialCols == Member(json, InitialColsKey)
    IN Assign(s, "initialCols", initialCols, asInt(initialCols))

LayerShowTitleInTitlebar(s, json) ==
    LET showTitleInTitlebar == Member(json, ShowTitleInTitlebarKey)
    IN Assign(s, "showTitleInTitlebar", showTitleInTitlebar, asBool(showTitleInTitlebar))

LayerShowTabsInTitlebar(s, json) ==
    LET showTabsInTitlebar == Member(json, ShowTabsInTitlebarKey)
    IN Assign(s, "showTabsInTitlebar", showTabsInTitlebar, asBool(showTabsInTitlebar))

LayerWordDelimiters(s, json) ==
    LET wordDelimiters == Member(json, WordDelimitersKey)
    IN Assign(s, "wordDelimiters", wordDelimiters, GetWstringFromJson(wordDelimiters))

LayerCopyOnSelect(s, json) ==
    LET copyOnSelect == Member(json, CopyOnSelectKey)
    IN Assign(s, "copyOnSelect", copyOnSelect, asBool(copyOnSelect))

LayerRequestedTheme(s, json) ==
    LET requestedTheme == Member(json, RequestedThemeKey)
        wstr == GetWstringFromJson(requestedTheme)
    IN Assign(s, "requestedTheme", requestedTheme,
              IF wstr.ok THEN Ok(ParseTheme(wstr.val)) ELSE Threw)

LayerKeybindings(s, json) ==
    LET keybindings == Member(json, KeybindingsKey)
    IN Assign(s, "keybindings", keybindings,
              KeybindingsLayerJson(s.obj.keybindings, keybindings))

\* LayerJson laying the document over a new instance: a replace, not a merge.
LayerJson_Replace(obj, json) ==
    LET s0 == [obj |-> [GlobalAppSettings EXCEPT !.colorSchemes = obj.colorSchemes],
               threw |-> FALSE]
        s1 == LayerDefaultProfile(s0, json)
        s2 == LayerAlwaysShowTabs(s1, json)
        s3 == LayerInitialRows(s2, json)
        s4 == LayerInitialCols(s3, json)
        s5 == LayerShowTitleInTitlebar(s4, json)
        s6 == LayerShowTabsInTitlebar(s5, json)
        s7 == LayerWordDelimiters(s6, json)
        s8 == LayerCopyOnSelect(s7, json)
        s9 == LayerRequestedTheme(s8, json)
    IN LayerKeybindings(s9, json)

\* LayerJson reading defaultProfile after the other keys.
LayerJson_ProfileLast(obj, json) ==
    LET s0 == [obj |-> obj, threw |-> FALSE]
        s2 == LayerAlwaysShowTabs(s0, json)
        s3 == LayerInitialRows(s2, json)
        s4 == LayerInitialCols(s3, json)
        s5 == LayerShowTitleInTitlebar(s4, json)
        s6 == LayerShowTabsInTitlebar(s5, json)
        s7 == LayerWordDelimiters(s6, json)
        s8 == LayerCopyOnSelect(s7, json)
        s9 == LayerRequestedTheme(s8, json)
        s10 == LayerKeybindings(s9, json)
    IN LayerDefaultProfile(s10, json)

\* The whole function on an object: [obj, threw].
LayerJson(obj, json) ==
    LET s0 == [obj |-> obj, threw |-> FALSE]
        s1 == LayerDefaultProfile(s0, json)
        s2 == LayerAlwaysShowTabs(s1, json)
        s3 == LayerInitialRows(s2, json)
        s4 == LayerInitialCols(s3, json)
        s5 == LayerShowTitleInTitlebar(s4, json)
        s6 == LayerShowTabsInTitlebar(s5, json)
        s7 == LayerWordDelimiters(s6, json)
        s8 == LayerCopyOnSelect(s7, json)
        s9 == LayerRequestedTheme(s8, json)
    IN LayerKeybindings(s9, json)

\* ToJson writing initialCols under both size keys.
ToJson_ColsTwice(obj) ==
    [k \in DocKeys |->
        CASE k = DefaultProfileKey -> JStr(GuidToString(obj.defaultProfile))
          [] k = InitialRowsKey -> JInt(obj.initialCols)
          [] k = InitialColsKey -> JInt(obj.initialCols)
          [] k = AlwaysShowTabsKey -> JBool(obj.alwaysShowTabs)
          [] k = ShowTitleInTitlebarKey -> JBool(obj.showTitleInTitlebar)
          [] k = ShowTabsInTitlebarKey -> JBool(obj.showTabsInTitlebar)
          [] k = WordDelimitersKey -> JStr(obj.wordDelimiters)
          [] k = CopyOnSelectKey -> JBool(obj.copyOnSelect)
          [] k = RequestedThemeKey -> JStr(SerializeTheme(obj.requestedTheme))
          [] k = KeybindingsKey -> KeybindingsToJson(obj.keybindings)
          [] OTHER -> Absent]

\* ToJson: every field but colorSchemes, under its key.
ToJson(obj) ==
    [k \in DocKeys |->
        CASE k = DefaultProfileKey -> JStr(GuidToString(obj.defaultProfile))
          [] k = InitialRowsKey -> JInt(obj.initialRows)
          [] k = InitialColsKey -> JInt(obj.initialCols)
          [] k = AlwaysShowTabsKey -> JBool(obj.alwaysShowTabs)
          [] k = ShowTitleInTitlebarKey -> JBool(obj.showTitleInTitlebar)
          [] k = ShowTabsInTitlebarKey -> JBool(obj.showTabsInTitlebar)
          [] k = WordDelimitersKey -> JStr(obj.wordDelimiters)
          [] k = CopyOnSelectKey -> JBool(obj.copyOnSelect)
          [] k = RequestedThemeKey -> JStr(SerializeTheme(obj.requestedTheme))
          [] k = KeybindingsKey -> KeybindingsToJson(obj.keybindings)
          [] OTHER -> Absent]

\* FromJson: a new instance with json layered on it; the exception of
\* LayerJson leaves FromJson too, and then nothing is returned.
FromJson(json) ==
    LET s == LayerJson(GlobalAppSettings, json)
    IN IF s.threw THEN [ok |-> FALSE, obj |-> GlobalAppSettings]
       ELSE [ok |-> TRUE, obj |-> s.obj]

(***************************************************************************)
(* ApplyToSettings.  A TerminalSettings is modelled by the five attributes *)
(* the function names and `rest`, which stands for every other attribute.  *)
(* KeyBindings receives the instance's own AppKeyBindings object; the      *)
(* model passes its bindings at the time of the call.                      *)
(***************************************************************************)
\* ApplyToSettings passing _initialRows to InitialCols.
ApplyToSettings_RowsTwice(obj, target) ==
    [target EXCEPT !.KeyBindings = obj.keybindings,
                   !.InitialRows = obj.initialRows,
                   !.InitialCols = obj.initialRows,
                   !.WordDelimiters = obj.wordDelimiters,
                   !.CopyOnSelect = obj.copyOnSelect]

ApplyToSettings(obj, target) ==
    [target EXCEPT !.KeyBindings = obj.keybindings,
                   !.InitialRows = obj.initialRows,
                   !.InitialCols = obj.initialCols,
                   !.WordDelimiters = obj.wordDelimiters,
                   !.CopyOnSelect = obj.copyOnSelect]

(***************************************************************************)
(* AddColorScheme: _colorSchemes[name] = scheme.                           *)
(***************************************************************************)
\* AddColorScheme with map::insert, which keeps an entry already there.
AddColorScheme_Insert(colorSchemes, scheme) ==
    LET name == scheme.name
    IN [n \in (DOMAIN colorSchemes) \cup {name} |->
            IF n \in DOMAIN colorSchemes THEN colorSchemes[n] ELSE scheme]

AddColorScheme(colorSchemes, scheme) ==
    LET name == scheme.name
    IN [n \in (DOMAIN colorSchemes) \cup {name} |->
            IF n = name THEN scheme ELSE colorSchemes[n]]

(***************************************************************************)
(* Inputs.                                                                 *)
(***************************************************************************)
BindNewTab == [c \in {"ctrl+t"} |-> "newTab"]
BindClose == [c \in Chords |-> "closeTab"]

\* The values a document may hold under each key: null, well-typed values,
\* the falsy values false, 0 and "", and values that do not convert.
ValuesFor(key) ==
    CASE key = DefaultProfileKey ->
            {Null, JStr(GuidToString(1)), JStr(GuidToString(2)), JStr("not-a-guid")}
      [] key = AlwaysShowTabsKey ->
            {Null, JBool(FALSE), JBool(TRUE), JInt(0), JStr("yes")}
      [] key \in {ShowTitleInTitlebarKey, ShowTabsInTitlebarKey, CopyOnSelectKey} ->
            {Null, JBool(FALSE), JBool(TRUE)}
      [] key = InitialRowsKey -> {Null, JInt(0), JInt(10), JInt(20)}
      [] key = InitialColsKey -> {Null, JInt(0), JInt(20), JStr("wide")}
      [] key = WordDelimitersKey -> {Null, JStr(""), JStr(" /")}
      [] key = RequestedThemeKey ->
            {Null, JStr(LightThemeValue), JStr(DarkThemeValue), JStr(SystemThemeValue),
             JStr("sepia"), JStr("")}
      [] key = KeybindingsKey -> {Null, JObj(BindNewTab), JObj(BindClose)}
      [] key = UnknownKey -> {JBool(TRUE)}

EmptyDoc == [k \in DocKeys |-> Absent]

\* Documents of one key.
SingleDocs == { [EmptyDoc EXCEPT ![k] = v] : <<k, v>> \in
                  UNION { {<<key, val>> : val \in ValuesFor(key)} : key \in DocKeys } }

\* Documents of one key together with a defaultProfile, well-formed or
\* malformed, and documents of one falsy member together with a null
\* defaultProfile.
PairDocs ==
    LET others == { e \in SingleDocs : e[DefaultProfileKey] = Absent }
        falsy == { e \in others : \E k \in DocKeys :
                      e[k] \in {JBool(FALSE), JInt(0), JStr("")} }
    IN { [d EXCEPT ![DefaultProfileKey] = v] :
            <<d, v>> \in others \X {JStr(GuidToString(1)), JStr("not-a-guid")} }
       \cup { [d EXCEPT ![DefaultProfileKey] = Null] : d \in falsy }

Docs == {EmptyDoc} \cup SingleDocs \cup PairDocs

\* The documents layered between the other member functions.
FewDocs ==
    { EmptyDoc,
      [EmptyDoc EXCEPT ![InitialRowsKey] = JInt(10)],
      [EmptyDoc EXCEPT ![InitialRowsKey] = JInt(20), ![InitialColsKey] = JInt(20)],
      [EmptyDoc EXCEPT ![AlwaysShowTabsKey] = JBool(FALSE), ![UnknownKey] = JBool(TRUE)],
      [EmptyDoc EXCEPT ![RequestedThemeKey] = JStr("sepia")],
      [EmptyDoc EXCEPT ![RequestedThemeKey] = JStr(DarkThemeValue),
                       ![WordDelimitersKey] = JStr("")],
      [EmptyDoc EXCEPT ![KeybindingsKey] = JObj(BindNewTab)],
      [EmptyDoc EXCEPT ![KeybindingsKey] = JObj(BindClose),
                       ![ShowTabsInTitlebarKey] = JBool(FALSE)],
      [EmptyDoc EXCEPT ![DefaultProfileKey] = JStr(GuidToString(1)),
                       ![CopyOnSelectKey] = JBool(TRUE)],
      [EmptyDoc EXCEPT ![DefaultProfileKey] = JStr("not-a-guid"),
                       ![ShowTitleInTitlebarKey] = JBool(FALSE)] }

\* The documents FromJson is given, besides the ones ToJson wrote.
FromDocs ==
    { [EmptyDoc EXCEPT ![DefaultProfileKey] = JStr("not-a-guid"),
                       ![InitialRowsKey] = JInt(10)],
      [EmptyDoc EXCEPT ![DefaultProfileKey] = JStr(GuidToString(2)),
                       ![RequestedThemeKey] = JStr(LightThemeValue)] }

WordDelimiterInputs == {"", " /", DEFAULT_WORD_DELIMITERS}

SchemeNames == {"Campbell", "Solarized"}
Schemes == [name : SchemeNames, table : {"palette-a", "palette-b"}]

\* A freshly made TerminalSettings, and one a profile has already filled.
TerminalSettings ==
    [KeyBindings |-> NoBindings, InitialRows |-> 0, InitialCols |-> 0,
     WordDelimiters |-> "", CopyOnSelect |-> FALSE, rest |-> "fresh"]
Targets ==
    { TerminalSettings,
      [KeyBindings |-> BindClose, InitialRows |-> 10, InitialCols |-> 20,
       WordDelimiters |-> " /", CopyOnSelect |-> TRUE, rest |-> "profile"] }

ThemeStrings == {LightThemeValue, DarkThemeValue, SystemThemeValue, "sepia", "Light", "", "default"}

(***************************************************************************)
(* The state after construction.                                           *)
(***************************************************************************)
NoCall == [op |-> "GlobalAppSettings", ok |-> TRUE]
NotGiven == [t |-> "none", v |-> "none"]
Unset == "unset"
IdleLab == [x |-> "Default", s |-> SystemThemeValue, enc |-> Unset, dec |-> Unset,
            decEnc |-> Unset, encDec |-> Unset]

Init ==
    /\ this = GlobalAppSettings
    /\ call = NoCall
    /\ doc = EmptyDoc
    /\ result = [ok |-> TRUE, obj |-> GlobalAppSettings]
    /\ settings = TerminalSettings
    /\ given = [k \in RecognizedKeys |-> NotGiven]
    /\ layered = [k \in RecognizedKeys |-> NotGiven]
    /\ clean = TRUE
    /\ added = <<>>
    /\ calls = 0
    /\ lab = IdleLab

(***************************************************************************)
(* One action per member function.                                         *)
(***************************************************************************)
Called(op, ok) ==
    /\ call' = [op |-> op, ok |-> ok]
    /\ calls' = calls + 1

LayerJsonStep(json) ==
    /\ calls < MaxCalls
    /\ LET s == LayerJson(this, json)
       IN /\ this' = s.obj
          /\ Called("LayerJson", ~s.threw)
          /\ clean' = (clean /\ ~s.threw)
          /\ given' = IF s.threw THEN given
                      ELSE [k \in RecognizedKeys |->
                               IF json[k] # Absent THEN json[k] ELSE given[k]]
          /\ layered' = IF s.threw THEN layered
                        ELSE [k \in RecognizedKeys |->
                                 IF json[k] \notin {Absent, Null} THEN json[k]
                                 ELSE layered[k]]
    /\ doc' = json
    /\ UNCHANGED <<result, settings, added, lab>>

FromJsonStep(json) ==
    /\ calls < MaxCalls
    /\ result' = FromJson(json)
    /\ Called("FromJson", result'.ok)
    /\ doc' = json
    /\ clean' = FALSE
    /\ UNCHANGED <<this, settings, given, layered, added, lab>>

Setter(op, field, value) ==
    /\ calls < MaxCalls
    /\ this' = [this EXCEPT ![field] = value]
    /\ Called(op, TRUE)
    /\ clean' = FALSE
    /\ UNCHANGED <<doc, result, settings, given, layered, added, lab>>

SetDefaultProfile(defaultProfile) == Setter("SetDefaultProfile", "defaultProfile", defaultProfile)
SetAlwaysShowTabs(showTabs) == Setter("SetAlwaysShowTabs", "alwaysShowTabs", showTabs)
SetShowTitleInTitlebar(showTitleInTitlebar) ==
    Setter("SetShowTitleInTitlebar", "showTitleInTitlebar", showTitleInTitlebar)
SetRequestedTheme(requestedTheme) == Setter("SetRequestedTheme", "requestedTheme", requestedTheme)
SetWordDelimiters(wordDelimiters) == Setter("SetWordDelimiters", "wordDelimiters", wordDelimiters)
SetCopyOnSelect(copyOnSelect) == Setter("SetCopyOnSelect", "copyOnSelect", copyOnSelect)
SetShowTabsInTitlebar(showTabsInTitlebar) ==
    Setter("SetShowTabsInTitlebar", "showTabsInTitlebar", showTabsInTitlebar)

AddColorSchemeStep(scheme) ==
    /\ calls < MaxCalls
    /\ this' = [this EXCEPT !.colorSchemes = AddColorScheme(this.colorSchemes, scheme)]
    /\ added' = Append(added, scheme)
    /\ Called("AddColorScheme", TRUE)
    /\ clean' = FALSE
    /\ UNCHANGED <<doc, result, settings, given, layered, lab>>

ApplyToSettingsStep(target) ==
    /\ calls < MaxCalls
    /\ settings' = ApplyToSettings(this, target)
    /\ Called("ApplyToSettings", TRUE)
    /\ clean' = FALSE
    /\ UNCHANGED <<this, doc, result, given, layered, added, lab>>

Next ==
    \/ \E json \in FewDocs : LayerJsonStep(json)
    \/ \E json \in FromDocs \cup {ToJson(this)} : FromJsonStep(json)
    \/ \E g \in Guids : SetDefaultProfile(g)
    \/ \E b \in BOOLEAN : SetAlwaysShowTabs(b)
    \/ \E b \in BOOLEAN : SetShowTitleInTitlebar(b)
    \/ \E b \in BOOLEAN : SetShowTabsInTitlebar(b)
    \/ \E b \in BOOLEAN : SetCopyOnSelect(b)
    \/ \E theme \in ElementTheme : SetRequestedTheme(theme)
    \/ \E w \in WordDelimiterInputs : SetWordDelimiters(w)
    \/ \E scheme \in Schemes : AddColorSchemeStep(scheme)
    \/ \E target \in Targets : ApplyToSettingsStep(target)

Spec == Init /\ [][Next]_vars

\* Layering alone, over every document of Docs.
NextLayer == calls < MaxLayers /\ \E json \in Docs : LayerJsonStep(json)

SpecLayer == Init /\ [][NextLayer]_vars

(***************************************************************************)
(* The theme conversions on their own: x and s are the arguments.          *)
(***************************************************************************)
InitTheme ==
    /\ this = GlobalAppSettings
    /\ call = NoCall
    /\ doc = EmptyDoc
    /\ result = [ok |-> TRUE, obj |-> GlobalAppSettings]
    /\ settings = TerminalSettings
    /\ given = [k \in RecognizedKeys |-> NotGiven]
    /\ layered = [k \in RecognizedKeys |-> NotGiven]
    /\ clean = TRUE
    /\ added = <<>>
    /\ calls = 0
    /\ lab \in [x : ElementTheme, s : ThemeStrings, enc : {Unset}, dec : {Unset},
                decEnc : {Unset}, encDec : {Unset}]

Rest == <<this, call, doc, result, settings, given, layered, clean, added, calls>>

SerializeStep ==
    /\ lab.enc = Unset
    /\ lab' = [lab EXCEPT !.enc = SerializeTheme(lab.x)]
    /\ UNCHANGED Rest

ParseStep ==
    /\ lab.dec = Unset
    /\ lab' = [lab EXCEPT !.dec = ParseTheme(lab.s)]
    /\ UNCHANGED Rest

ParseSerializedStep ==
    /\ lab.enc # Unset
    /\ lab.decEnc = Unset
    /\ lab' = [lab EXCEPT !.decEnc = ParseTheme(lab.enc)]
    /\ UNCHANGED Rest

SerializeParsedStep ==
    /\ lab.dec # Unset
    /\ lab.encDec = Unset
    /\ lab' = [lab EXCEPT !.encDec = SerializeTheme(lab.dec)]
    /\ UNCHANGED Rest

NextTheme == SerializeStep \/ ParseStep \/ ParseSerializedStep \/ SerializeParsedStep

SpecTheme == InitTheme /\ [][NextTheme]_vars

(***************************************************************************)
(* What the properties below speak of.                                     *)
(***************************************************************************)
BoolKeys == {AlwaysShowTabsKey, ShowTitleInTitlebarKey, ShowTabsInTitlebarKey, CopyOnSelectKey}
IntKeys == {InitialRowsKey, InitialColsKey}
ScalarKeys == RecognizedKeys \ {KeybindingsKey}
Fields == DOMAIN GlobalAppSettings
SerializedFields == Fields \ {"colorSchemes"}

\* The theme a string stands for.
Decode(str) ==
    CASE str = "light" -> "Light"
      [] str = "dark" -> "Dark"
      [] OTHER -> "Default"

\* The value a key's member parses to, by the parsing rule of its type.
Parsed(key, value, obj) ==
    CASE key = DefaultProfileKey ->
            LET wstr == GetWstringFromJson(value)
            IN IF wstr.ok THEN GuidFromString(wstr.val) ELSE Threw
      [] key \in BoolKeys -> asBool(value)
      [] key \in IntKeys -> asInt(value)
      [] key = WordDelimitersKey -> GetWstringFromJson(value)
      [] key = RequestedThemeKey ->
            LET wstr == GetWstringFromJson(value)
            IN IF wstr.ok THEN Ok(Decode(wstr.val)) ELSE Threw
      [] key = KeybindingsKey -> KeybindingsLayerJson(obj.keybindings, value)

\* The field holds the value the member parses to.
IsParsed(key, value, obj, field) ==
    LET p == Parsed(key, value, obj)
    IN p.ok /\ field = p.val

\* The key is in the document / is in it with a value that is not null.
Contains(json, key) == json[key] # Absent
Holds(json, key) == json[key] \notin {Absent, Null}

\* A null under defaultProfile or keybindings parses to no value at all; the
\* statements as stated ask nothing of these two.
Unparsable(key, value) == value = Null /\ key \in {DefaultProfileKey, KeybindingsKey}

\* Every member the document holds converts to its field's type.
Converts(json, obj) ==
    \A k \in RecognizedKeys : Holds(json, k) => Parsed(k, json[k], obj).ok

\* The step just taken was a LayerJson call / one that returned.
Layered == call'.op = "LayerJson" /\ calls' = calls + 1
LayeredOk == Layered /\ call'.ok

\* The defaultProfile member is a string that is no canonical GUID text.
Malformed(json) ==
    /\ json[DefaultProfileKey].t = "string"
    /\ \A g \in Guids : GuidToString(g) # json[DefaultProfileKey].v

(***************************************************************************)
(* C1, as stated: a LayerJson call that returns sets the field of every    *)
(* recognized key the document contains to the parsed value of that key,   *)
(* keeps every field whose key is absent, and a document whose recognized  *)
(* members all convert raises no error, whatever other keys it holds.      *)
(* The parsed value of null is false, 0, "" or Default, by the field's     *)
(* type.                                                                   *)
(***************************************************************************)
C1_AsStated ==
    [][ /\ LayeredOk =>
            /\ \A k \in RecognizedKeys :
                  IF Contains(doc', k)
                  THEN \/ Unparsable(k, doc'[k])
                       \/ IsParsed(k, doc'[k], this, this'[FieldOf(k)])
                  ELSE this'[FieldOf(k)] = this[FieldOf(k)]
            /\ this'.colorSchemes = this.colorSchemes
        /\ (Layered /\ Converts(doc', this)) => call'.ok ]_vars

(***************************************************************************)
(* C1, amended: a LayerJson call that returns sets the field of every      *)
(* recognized key the document holds with a value that is not null to the  *)
(* parsed value of that key, keeps every field whose key is absent or      *)
(* null, and a document whose recognized members all convert raises no     *)
(* error, whatever other keys it holds.                                    *)
(***************************************************************************)
C1_LayerFrame ==
    [][ /\ LayeredOk =>
            /\ \A k \in RecognizedKeys :
                  IF Holds(doc', k)
                  THEN IsParsed(k, doc'[k], this, this'[FieldOf(k)])
                  ELSE this'[FieldOf(k)] = this[FieldOf(k)]
            /\ this'.colorSchemes = this.colorSchemes
        /\ (Layered /\ Converts(doc', this)) => call'.ok ]_vars

\* A second call set alwaysShowTabs to false from a document without
\* initialRows, and kept the initialRows = 20 of the first call.
C1_Witness ==
    /\ call = [op |-> "LayerJson", ok |-> TRUE]
    /\ doc[AlwaysShowTabsKey] = JBool(FALSE)
    /\ doc[InitialRowsKey] = Absent
    /\ this.alwaysShowTabs = FALSE
    /\ this.initialRows = 20
    /\ this.initialCols = DEFAULT_COLS

(***************************************************************************)
(* C2, as stated: after LayerJson calls that all returned, on a new        *)
(* instance, every scalar field is the parsed value of the last call whose *)
(* document contained its key, and the constructor's value when no         *)
(* document contained it.  The parsed value of null is false, 0, "" or     *)
(* Default, by the field's type.                                           *)
(***************************************************************************)
C2_AsStated ==
    clean =>
        \A k \in ScalarKeys :
            IF given[k] = NotGiven THEN this[FieldOf(k)] = GlobalAppSettings[FieldOf(k)]
            ELSE \/ Unparsable(k, given[k])
                 \/ IsParsed(k, given[k], GlobalAppSettings, this[FieldOf(k)])

(***************************************************************************)
(* C2, amended: after LayerJson calls that all returned, on a new          *)
(* instance, every scalar field is the parsed value of the last call whose *)
(* document held its key with a value that is not null, and the            *)
(* constructor's value when no document held it so.                        *)
(***************************************************************************)
C2_LastCallWins ==
    clean =>
        \A k \in ScalarKeys :
            IF layered[k] = NotGiven THEN this[FieldOf(k)] = GlobalAppSettings[FieldOf(k)]
            ELSE IsParsed(k, layered[k], GlobalAppSettings, this[FieldOf(k)])

\* The second of two calls gave initialRows = 20, and no call gave initialCols.
C2_Witness ==
    /\ clean
    /\ calls = 2
    /\ layered[InitialRowsKey] = JInt(20)
    /\ doc[InitialRowsKey] = JInt(20)
    /\ this.initialRows = 20
    /\ layered[InitialColsKey] = NotGiven
    /\ this.initialCols = DEFAULT_COLS

(***************************************************************************)
(* C3: FromJson of the document ToJson wrote for the instance returns an   *)
(* instance equal to it in every field but colorSchemes.                   *)
(***************************************************************************)
C3_RoundTrip ==
    (call.op = "FromJson" /\ doc = ToJson(this)) =>
        /\ call.ok
        /\ result.ok
        /\ \A f \in SerializedFields : result.obj[f] = this[f]

\* The instance round-tripped had been changed by a setter and by LayerJson.
C3_Witness ==
    /\ call = [op |-> "FromJson", ok |-> TRUE]
    /\ doc = ToJson(this)
    /\ this.requestedTheme = "Light"
    /\ this.keybindings = BindClose
    /\ ~this.showTabsInTitlebar
    /\ result.obj.requestedTheme = "Light"
    /\ result.obj.keybindings = BindClose

(***************************************************************************)
(* C4: LayerJson and FromJson of a document whose defaultProfile is a      *)
(* string that is no canonical GUID text end in an exception.              *)
(***************************************************************************)
C4_MalformedProfileFails ==
    (call.op \in {"LayerJson", "FromJson"} /\ Malformed(doc)) =>
        /\ ~call.ok
        /\ call.op = "FromJson" => ~result.ok

\* LayerJson threw on "not-a-guid" after a setter had changed defaultProfile.
C4_Witness ==
    /\ call = [op |-> "LayerJson", ok |-> FALSE]
    /\ doc[DefaultProfileKey] = JStr("not-a-guid")
    /\ this.defaultProfile = 2

LastAdded(name) ==
    added[CHOOSE i \in DOMAIN added :
             /\ added[i].name = name
             /\ \A j \in DOMAIN added : added[j].name = name => j <= i]

C6_ColorSchemes ==
    /\ DOMAIN this.colorSchemes = { added[i].name : i \in DOMAIN added }
    /\ \A n \in DOMAIN this.colorSchemes :
          /\ this.colorSchemes[n].name = n
          /\ this.colorSchemes[n] = LastAdded(n)
    /\ call.op = "AddColorScheme" => call.ok

\* Three calls, the third replacing the scheme of the first under its name.
C6_Witness ==
    /\ Len(added) = 3
    /\ added[1].name = added[3].name
    /\ added[1] # added[3]
    /\ added[2].name # added[1].name
    /\ Cardinality(DOMAIN this.colorSchemes) = 2
    /\ this.colorSchemes[added[3].name] = added[3]

(***************************************************************************)
(* C7: ApplyToSettings sets KeyBindings, InitialRows, InitialCols,         *)
(* WordDelimiters and CopyOnSelect of the target from the instance, leaves *)
(* every other attribute of the target and the instance as they were, and  *)
(* does not fail.                                                          *)
(***************************************************************************)
C7_ApplyToSettings ==
    [][ \A target \in Targets :
          ApplyToSettingsStep(target) =>
              /\ this' = this
              /\ call'.ok
              /\ DOMAIN settings' = DOMAIN target
              /\ settings'.KeyBindings = this.keybindings
              /\ settings'.InitialRows = this.initialRows
              /\ settings'.InitialCols = this.initialCols
              /\ settings'.WordDelimiters = this.wordDelimiters
              /\ settings'.CopyOnSelect = this.copyOnSelect
              /\ settings'.rest = target.rest ]_vars

\* The target a profile had filled took the five values of a changed instance.
C7_Witness ==
    /\ call = [op |-> "ApplyToSettings", ok |-> TRUE]
    /\ settings.rest = "profile"
    /\ this.initialRows = 20
    /\ this.initialCols = 20
    /\ this.copyOnSelect = FALSE
    /\ this.requestedTheme = "Dark"
    /\ settings.InitialRows = 20
    /\ settings.InitialCols = 20
    /\ settings.CopyOnSelect = FALSE
    /\ settings.WordDelimiters = this.wordDelimiters
    /\ settings.KeyBindings = this.keybindings

(***************************************************************************)
(* C8: _SerializeTheme maps Light to "light", Dark to "dark" and Default   *)
(* to "system"; _ParseTheme maps "light" to Light, "dark" to Dark and any  *)
(* other string to Default; parsing the serialized theme gives the theme   *)
(* back; serializing the parsed string gives the string back exactly for   *)
(* "light", "dark" and "system".                                           *)
(***************************************************************************)
C8_ThemeCodec ==
    /\ lab.enc # Unset =>
          lab.enc = (CASE lab.x = "Light" -> "light" [] lab.x = "Dark" -> "dark"
                       [] OTHER -> "system")
    /\ lab.dec # Unset => lab.dec = Decode(lab.s)
    /\ lab.decEnc # Unset => lab.decEnc = lab.x
    /\ lab.encDec # Unset =>
          (lab.encDec = lab.s <=> lab.s \in {"light", "dark", "system"})

\* Dark came back from its text, and "sepia" came back as "system".
C8_Witness ==
    /\ lab.x = "Dark"
    /\ lab.decEnc = "Dark"
    /\ lab.s = "sepia"
    /\ lab.encDec = "system"

(***************************************************************************)
(* C9: a LayerJson call on a document whose defaultProfile is malformed    *)
(* throws and leaves every field of the instance as it was, whatever else  *)
(* the document holds.                                                     *)
(***************************************************************************)
C9_FailedLayerKeepsAll ==
    [][ (Layered /\ Malformed(doc')) => (~call'.ok /\ this' = this) ]_vars

\* The call threw on a document that also held initialRows = 20, which the
\* instance did not take.
C9_Witness ==
    /\ call = [op |-> "LayerJson", ok |-> FALSE]
    /\ Malformed(doc)
    /\ doc[InitialRowsKey] = JInt(20)
    /\ this.initialRows = 10

(***************************************************************************)
(* C10: LayerJson keeps the field of a recognized key whose value is null, *)
(* a document that holds nothing but nulls raises no error, and a call     *)
(* that returns overwrites the field of a key whose value is false, 0 or   *)
(* the empty string.                                                       *)
(***************************************************************************)
Falsy == {JBool(FALSE), JInt(0), JStr("")}

C10_NullIsAbsent ==
    [][ /\ LayeredOk =>
            \A k \in RecognizedKeys :
               /\ doc'[k] = Null => this'[FieldOf(k)] = this[FieldOf(k)]
               /\ doc'[k] \in Falsy => IsParsed(k, doc'[k], this, this'[FieldOf(k)])
        /\ (Layered /\ \A k \in RecognizedKeys : ~Holds(doc', k)) =>
               (call'.ok /\ this' = this) ]_vars

\* defaultProfile: null was no error and kept the profile of the first call,
\* while wordDelimiters: "" beside it emptied the delimiters.
C10_Witness ==
    /\ call = [op |-> "LayerJson", ok |-> TRUE]
    /\ doc[DefaultProfileKey] = Null
    /\ doc[WordDelimitersKey] = JStr("")
    /\ this.defaultProfile = 1
    /\ this.wordDelimiters = ""

====
